---------------------------- MODULE Spec2Model ----------------------------
(***************************************************************************)
(* A model of the spatial subsetting, series extraction and fitting        *)
(* functions of InSAR_postprocessing.py.                                   *)
(*                                                                         *)
(* Every function of the file is a synchronous call on in-memory data, so  *)
(* the state is: the dataset the caller holds (Data), the other arguments   *)
(* the caller holds (inp: a query, a scale factor, a series, ...), the     *)
(* last call made (call) and its outcome (out): the raised exception, or   *)
(* the returned values together with the locals the function had computed  *)
(* when it returned.  The initial state draws the arguments from bounded   *)
(* sets; an action is one call of a function on them.                      *)
(*                                                                         *)
(* Numbers.  TLA+ has integers only.  Coordinates are counted in half      *)
(* degrees (so 0.5 degree is 1 and 1 degree is 2); a distance is carried   *)
(* as its square, which orders distances exactly as the square root does;  *)
(* a quotient is carried as a pair [num, den].  Indices are 0-based in     *)
(* every result, as in the Python code; sequences are 1-based inside.      *)
(***************************************************************************)
EXTENDS Integers, Sequences, FiniteSets

VARIABLES Data, inp, call, out

vars == <<Data, inp, call, out>>

-----------------------------------------------------------------------------
(* Bounds of the model *)

\* most rows of a dataset of the nearest-record specification
MaxRows == 2
\* largest latitude (half degrees) of a record or a query
MaxLat == 3
\* largest longitude (half degrees) of a record or a query
MaxLon == 1
\* most rows of a dataset of the series specification
MaxSerRows == 2
\* largest displacement value of a dataset of the series specification
MaxVal == 1

-----------------------------------------------------------------------------
(* numpy helpers *)

RECURSIVE SumFrom(_, _)
SumFrom(s, i) == IF i > Len(s) THEN 0 ELSE s[i] + SumFrom(s, i + 1)

\* np.sum of a 1-D array
NpSum(s) == SumFrom(s, 1)

RECURSIVE MinFrom(_, _, _)
MinFrom(s, i, m) ==
  IF i > Len(s) THEN m
  ELSE MinFrom(s, i + 1, IF s[i] < m THEN s[i] ELSE m)

\* np.min of a non-empty 1-D array
NpMin(s) == MinFrom(s, 2, s[1])

RECURSIVE MaxFrom(_, _, _)
MaxFrom(s, i, m) ==
  IF i > Len(s) THEN m
  ELSE MaxFrom(s, i + 1, IF s[i] > m THEN s[i] ELSE m)

\* np.max of a non-empty 1-D array
NpMax(s) == MaxFrom(s, 2, s[1])

RECURSIVE ArgMinFrom(_, _, _)
ArgMinFrom(s, i, best) ==
  IF i > Len(s) THEN best
  ELSE ArgMinFrom(s, i + 1, IF s[i] < s[best] THEN i ELSE best)

\* np.argmin of a non-empty 1-D array, 0-based: the scan keeps the first
\* minimum, a later equal element does not replace it
NpArgMin(s) == ArgMinFrom(s, 2, 1) - 1

\* the scan with <= instead of <: the last minimum
RECURSIVE ArgMinLastFrom(_, _, _)
ArgMinLastFrom(s, i, best) ==
  IF i > Len(s) THEN best
  ELSE ArgMinLastFrom(s, i + 1, IF s[i] <= s[best] THEN i ELSE best)

Abs(x) == IF x < 0 THEN -x ELSE x

-----------------------------------------------------------------------------
(* Column labels, as the character strings pandas holds *)

LblLatitude  == <<"L","a","t","i","t","u","d","e">>
LblLongitude == <<"L","o","n","g","i","t","u","d","e">>
LblID        == <<"I","D">>
\* "20" inside a label, not at its start
LblVel20     == <<"V","E","L","2","0">>
LblD1        == <<"2","0","1","8","0","1","0","1">>
LblD2        == <<"2","0","1","8","0","2","0","1">>
LblD3        == <<"2","0","2","0","0","3","0","1">>
\* begins with "20" and is no date
Lbl20coh     == <<"2","0","c","o","h">>

IsDigit(c) == c \in {"0","1","2","3","4","5","6","7","8","9"}

DigitVal(c) ==
  CASE c = "0" -> 0 [] c = "1" -> 1 [] c = "2" -> 2 [] c = "3" -> 3
    [] c = "4" -> 4 [] c = "5" -> 5 [] c = "6" -> 6 [] c = "7" -> 7
    [] c = "8" -> 8 [] c = "9" -> 9

\* head.startswith('20')
StartsWith20(head) == Len(head) >= 2 /\ head[1] = "2" /\ head[2] = "0"

\* '20' in head: what a substring test would accept
Contains20(head) ==
  \E i \in 1..(Len(head) - 1) : head[i] = "2" /\ head[i + 1] = "0"

IsLeap(y) == (y % 4 = 0 /\ y % 100 # 0) \/ y % 400 = 0

DaysInMonth(y, m) ==
  IF m = 2 THEN (IF IsLeap(y) THEN 29 ELSE 28)
  ELSE IF m \in {4, 6, 9, 11} THEN 30 ELSE 31

\* date2num(datetime.date(y, m, d)): days since 1970-01-01 (the epoch of
\* matplotlib 3.3 and later; an older epoch shifts every number alike)
date2num(y, m, d) ==
  LET yy  == IF m <= 2 THEN y - 1 ELSE y
      era == yy \div 400
      yoe == yy - era * 400
      mp  == IF m > 2 THEN m - 3 ELSE m + 9
      doy == (153 * mp + 2) \div 5 + d - 1
      doe == yoe * 365 + yoe \div 4 - yoe \div 100 + doy
  IN  era * 146097 + doe - 719468

\* date2num(dt.strptime(label, '%Y%m%d').date()) on an 8-character label or
\* on a label holding a non-digit: [ok, num]; ok = FALSE is strptime's
\* ValueError
ParseYmd(label) ==
  IF Len(label) # 8 \/ \E i \in 1..Len(label) : ~IsDigit(label[i])
  THEN [ok |-> FALSE, num |-> 0]
  ELSE LET y == 1000 * DigitVal(label[1]) + 100 * DigitVal(label[2])
                + 10 * DigitVal(label[3]) + DigitVal(label[4])
           m == 10 * DigitVal(label[5]) + DigitVal(label[6])
           d == 10 * DigitVal(label[7]) + DigitVal(label[8])
       IN  IF y >= 1 /\ m \in 1..12 /\ d >= 1 /\ d <= DaysInMonth(y, m)
           THEN [ok |-> TRUE, num |-> date2num(y, m, d)]
           ELSE [ok |-> FALSE, num |-> 0]

-----------------------------------------------------------------------------
(* The dataset: a pandas DataFrame, [headings, rows], every row as long as  *)
(* the headings                                                            *)

\* position (1-based) of the first column named label; 0 when there is none
ColOf(headings, label) ==
  LET Pos == {i \in 1..Len(headings) : headings[i] = label}
  IN  IF Pos = {} THEN 0 ELSE CHOOSE i \in Pos : \A j \in Pos : i <= j

\* Data["Latitude"], Data["Longitude"] as arrays over the rows
LatColumn(D) ==
  [i \in 1..Len(D.rows) |-> D.rows[i][ColOf(D.headings, LblLatitude)]]
LonColumn(D) ==
  [i \in 1..Len(D.rows) |-> D.rows[i][ColOf(D.headings, LblLongitude)]]

\* np.where([head.startswith('20') for head in headings])[0]: the positions
\* (1-based here) of the labels that begin with "20", in column order
Where20(headings) ==
  LET Pos == {i \in 1..Len(headings) : StartsWith20(headings[i])}
  IN  IF Pos = {} THEN 0 ELSE CHOOSE i \in Pos : \A j \in Pos : i <= j

\* the first label that holds "20" anywhere
IdxFirstDateContains(headings) ==
  LET Pos == {i \in 1..Len(headings) : Contains20(headings[i])}
  IN  IF Pos = {} THEN 0 ELSE CHOOSE i \in Pos : \A j \in Pos : i <= j

\* idx_firstdate, 1-based; 0 stands for the IndexError of [0][0] on an
\* empty array
IdxFirstDate(headings) == Where20(headings)

-----------------------------------------------------------------------------
(* Nearest-record extraction *)

\* 0.5 degree, in half degrees: the tolerance of extract_series_from_latlon
TolExtract == 1
\* 1 degree, in half degrees: the tolerance of plot_series_latlon
TolPlot == 2

\* the square of np.sqrt((Data["Latitude"] - lat)**2 +
\* (Data["Longitude"] - lon)**2), one entry per row
DistSq(D, lat, lon) ==
  LET la == LatColumn(D)
      lo == LonColumn(D)
  IN  [i \in 1..Len(D.rows) |->
         (la[i] - lat) * (la[i] - lat) + (lo[i] - lon) * (lo[i] - lon)]

\* > where the code has >=
TooFarStrict(dist2, tol) == NpMin(dist2) > tol * tol

\* np.min(dist) >= tol, on the squares
TooFar(dist2, tol) == NpMin(dist2) >= tol * tol

\* the last minimum where np.argmin gives the first
NearestIndexLast(dist2) == ArgMinLastFrom(dist2, 2, 1) - 1

\* index = np.argmin(dist)
NearestIndex(dist2) == NpArgMin(dist2)

\* headings[idx_firstdate:], idx 1-based
DateLabels(headings, idx) == SubSeq(headings, idx, Len(headings))

\* factor * Data.iloc[index, idx_firstdate:], index 0-based, idx 1-based
ScaledRow(D, index, idx, factor) ==
  LET row == D.rows[index + 1]
  IN  [k \in 1..(Len(row) - idx + 1) |-> factor * row[idx + k - 1]]

\* The body shared by extract_series_from_latlon (tol 0.5) and
\* plot_series_latlon (tol 1): the outcome of the call.
NearestSeries(lat, lon, D, factor, tol) ==
  IF Len(D.rows) = 0
  THEN [status |-> "ValueError"]              \* np.min of an empty array
  ELSE
    LET dist2 == DistSq(D, lat, lon) IN
    IF TooFar(dist2, tol)
    THEN [status |-> "NoNearbyPoint"]         \* raise Exception("No pixels ...")
    ELSE
      LET index == NearestIndex(dist2)
          idx   == IdxFirstDate(D.headings)
      IN
      IF idx = 0
      THEN [status |-> "IndexError", index |-> index]
      ELSE
        LET labels == DateLabels(D.headings, idx)
            parsed == [k \in 1..Len(labels) |-> ParseYmd(labels[k])]
        IN
        IF \E k \in 1..Len(labels) : ~parsed[k].ok
        THEN [status |-> "ValueError", index |-> index]   \* strptime
        ELSE [status |-> "ok",
              index |-> index,
              idx_firstdate |-> idx - 1,
              dates |-> [k \in 1..Len(labels) |-> parsed[k].num],
              Series |-> ScaledRow(D, index, idx, factor)]

extract_series_from_latlon(lat, lon, D, factor) ==
  NearestSeries(lat, lon, D, factor, TolExtract)

plot_series_latlon(D, lat, lon, factor) ==
  NearestSeries(lat, lon, D, factor, TolPlot)

\* the scale factors a caller passes (1 is the default)
Factors == {1, 2}

\* the grid
Lats == 0..MaxLat
Lons == 0..MaxLon

\* the queries a caller holds: a grid point and a scale factor
Queries == [lat : Lats, lon : Lons, factor : Factors]

ExtractSeriesFromLatlon ==
  /\ call' = [op |-> "extract_series_from_latlon", tol |-> TolExtract]
  /\ out' = extract_series_from_latlon(inp.lat, inp.lon, Data, inp.factor)
  /\ UNCHANGED <<Data, inp>>

PlotSeriesLatlon ==
  /\ call' = [op |-> "plot_series_latlon", tol |-> TolPlot]
  /\ out' = plot_series_latlon(Data, inp.lat, inp.lon, inp.factor)
  /\ UNCHANGED <<Data, inp>>

NoCall == [op |-> "none"]
NoOut == [status |-> "none"]

\* the datasets of the nearest-record specification: Latitude, Longitude
\* and two date columns; row i holds the displacements i and 10 * i
HeadNear == <<LblLatitude, LblLongitude, LblD1, LblD2>>

NearDatasets ==
  UNION {
    { [headings |-> HeadNear,
       rows |-> [i \in 1..n |-> <<la[i], lo[i], i, 10 * i>>]] :
        la \in [1..n -> Lats], lo \in [1..n -> Lons] } : n \in 0..MaxRows }

InitNearest ==
  /\ Data \in NearDatasets
  /\ inp \in Queries
  /\ call = NoCall
  /\ out = NoOut

NextNearest == ExtractSeriesFromLatlon \/ PlotSeriesLatlon

SpecNearest == InitNearest /\ [][NextNearest]_vars

-----------------------------------------------------------------------------
(* get_mean_series *)

\* per row the mean over its date columns: np.mean(Series, axis=1)
ColumnMeansAxis1(D, idx) ==
  LET w == Len(D.headings) - idx + 1
  IN  [i \in 1..Len(D.rows) |->
         [num |-> NpSum([k \in 1..w |-> D.rows[i][idx + k - 1]]),
          den |-> w]]

\* np.mean(Data[Data.columns[idx_firstdate:]].values, axis=0): per column
\* the sum over the rows divided by the number of rows; den = 0 is the nan
\* numpy gives for a dataset without rows
ColumnMeans(D, idx) ==
  [k \in 1..(Len(D.headings) - idx + 1) |->
     [num |-> NpSum([i \in 1..Len(D.rows) |-> D.rows[i][idx + k - 1]]),
      den |-> Len(D.rows)]]

get_mean_series(D) ==
  LET idx == IdxFirstDate(D.headings) IN
  IF idx = 0
  THEN [status |-> "IndexError"]
  ELSE [status |-> "ok", mean_def |-> ColumnMeans(D, idx), n |-> Len(D.rows)]

GetMeanSeries ==
  /\ call' = [op |-> "get_mean_series"]
  /\ out' = get_mean_series(Data)
  /\ UNCHANGED <<Data, inp>>

\* the column layouts of the series specification
HeadPlain   == <<LblLatitude, LblLongitude, LblD1, LblD2>>
HeadLeading == <<LblID, LblLongitude, LblLatitude, LblVel20, LblD1, LblD3>>
HeadCoh     == <<LblLatitude, LblLongitude, Lbl20coh, LblD1>>
HeadNoDate  == <<LblLatitude, LblLongitude, LblID>>
HeadTrail   == <<LblD1, LblD2, LblLatitude, LblLongitude>>

SerLayouts == {HeadPlain, HeadLeading, HeadCoh, HeadNoDate, HeadTrail}

\* row i of a dataset of the series specification: at latitude i - 1 and
\* longitude 0, with the displacement a in the column 20180101 and b in
\* every other column whose label begins with "20"
SerRow(headings, i, a, b) ==
  [c \in 1..Len(headings) |->
     CASE headings[c] = LblLatitude  -> i - 1
       [] headings[c] = LblLongitude -> 0
       [] headings[c] = LblID        -> 7
       [] headings[c] = LblVel20     -> 5
       [] headings[c] = LblD1        -> a
       [] OTHER                      -> b]

SerDatasets ==
  UNION {
    { [headings |-> h, rows |-> [i \in 1..n |-> SerRow(h, i, a[i], b[i])]] :
        h \in SerLayouts, a \in [1..n -> 0..MaxVal], b \in [1..n -> 0..MaxVal] }
    : n \in 0..MaxSerRows }

InitSeries ==
  /\ Data \in SerDatasets
  /\ inp \in Queries
  /\ call = NoCall
  /\ out = NoOut

NextSeries == ExtractSeriesFromLatlon \/ GetMeanSeries

SpecSeries == InitSeries /\ [][NextSeries]_vars

-----------------------------------------------------------------------------
(* Claims on nearest-record extraction *)

IsNearestCall == call.op \in {"extract_series_from_latlon", "plot_series_latlon"}

\* the squared distance, in half degrees, from the query of the last call to
\* row i of the dataset
QueryDistSq(i) ==
  LET la == Data.rows[i][ColOf(Data.headings, LblLatitude)]
      lo == Data.rows[i][ColOf(Data.headings, LblLongitude)]
  IN  (la - inp.lat) * (la - inp.lat) + (lo - inp.lon) * (lo - inp.lon)

RowIds == 1..Len(Data.rows)

\* C1: on a non-empty dataset the nearest-record extraction fails with the
\* no-nearby-point error exactly when every record is at a distance greater
\* than or equal to the tolerance of the call (0.5 degree in
\* extract_series_from_latlon, 1 degree in plot_series_latlon); otherwise the
\* record it selects is at the minimum distance.
C1_NoNearbyIffMinAtLeastTol ==
  (IsNearestCall /\ RowIds # {}) =>
    /\ out.status = "NoNearbyPoint" <=>
         \A i \in RowIds : QueryDistSq(i) >= call.tol * call.tol
    /\ (\E i \in RowIds : QueryDistSq(i) < call.tol * call.tol) =>
         /\ out.index + 1 \in RowIds
         /\ \A j \in RowIds : QueryDistSq(out.index + 1) <= QueryDistSq(j)
    /\ call.tol = (IF call.op = "plot_series_latlon" THEN 2 ELSE 1)

\* the nearest record lies exactly at the tolerance and the call failed
C1_Witness ==
  /\ IsNearestCall /\ RowIds # {}
  /\ out.status = "NoNearbyPoint"
  /\ \E i \in RowIds : QueryDistSq(i) = call.tol * call.tol

\* C2: when several records lie at the same minimum distance from the
\* query, the selected record is the first of them in dataset order.
C2_TieTakesFirstRow ==
  (IsNearestCall /\ RowIds # {} /\ out.status # "NoNearbyPoint") =>
    \A j \in RowIds :
      (\A k \in RowIds : QueryDistSq(j) <= QueryDistSq(k)) => out.index + 1 <= j

\* two records tie at the minimum distance and one was selected
C2_Witness ==
  /\ IsNearestCall /\ out.status = "ok"
  /\ \E i, j \in RowIds :
       /\ i < j
       /\ QueryDistSq(i) = QueryDistSq(j)
       /\ \A k \in RowIds : QueryDistSq(i) <= QueryDistSq(k)
       /\ Data.rows[i] # Data.rows[j]
       /\ out.index + 1 = i

-----------------------------------------------------------------------------
(* Claims on the extracted and the mean series *)

\* the columns (1-based) whose label has the characters "2", "0" first
Cols20 ==
  {p \in 1..Len(Data.headings) :
     /\ Len(Data.headings[p]) >= 2
     /\ SubSeq(Data.headings[p], 1, 2) = <<"2", "0">>}

\* the first of them
FirstCol20 == CHOOSE p \in Cols20 : \A q \in Cols20 : p <= q

\* days from 1970-01-01 to the dates the model's date labels name
DayNumberOf(label) ==
  CASE label = LblD1 -> 17532
    [] label = LblD2 -> 17563
    [] label = LblD3 -> 18322

\* C9: extract_series_from_latlon takes as first date column the first
\* column whose label begins with "20" and returns a date axis and a value
\* series of equal length, one entry per column from that column to the last
\* one: the date of the column's label, and the selected record's value in
\* the column times the scale factor.
C9_SeriesFromFirst20Column ==
  (call.op = "extract_series_from_latlon") =>
    /\ out.status = "ok" =>
         LET p0 == out.idx_firstdate + 1
             w  == Len(Data.headings) - p0 + 1
         IN  /\ Cols20 # {} /\ p0 = FirstCol20
             /\ Len(out.dates) = w /\ Len(out.Series) = w /\ w >= 1
             /\ \A k \in 1..w :
                  /\ out.Series[k] = inp.factor * Data.rows[out.index + 1][p0 + k - 1]
                  /\ out.dates[k] = DayNumberOf(Data.headings[p0 + k - 1])
    /\ ( /\ out.status \notin {"NoNearbyPoint", "none"}
         /\ Data.rows # <<>>
         /\ Cols20 # {}
         /\ \A p \in FirstCol20..Len(Data.headings) :
              Data.headings[p] \in {LblD1, LblD2, LblD3} )
       => out.status = "ok"

\* a series was extracted with a factor other than 1 from a dataset whose
\* date columns come after a column that holds "20" inside its label
C9_Witness ==
  /\ call.op = "extract_series_from_latlon" /\ out.status = "ok"
  /\ Data.headings = HeadLeading
  /\ inp.factor = 2
  /\ out.idx_firstdate = 4
  /\ out.Series = <<2, 0>>
  /\ out.dates = <<17532, 18322>>

RECURSIVE ColumnTotal(_, _)
\* the sum of column c over the rows S of the dataset
ColumnTotal(S, c) ==
  IF S = {} THEN 0
  ELSE LET i == CHOOSE i \in S : TRUE
       IN  Data.rows[i][c] + ColumnTotal(S \ {i}, c)

\* C8: get_mean_series returns, per date column, the arithmetic mean of the
\* column over all records, and the number of records; for a dataset of one
\* record the mean series is that record's series and the count is 1.
C8_MeanSeriesIsColumnMean ==
  (call.op = "get_mean_series" /\ out.status = "ok") =>
    LET n == Len(Data.rows)
        w == Len(Data.headings) - FirstCol20 + 1
    IN  /\ out.n = n
        /\ Len(out.mean_def) = w
        /\ n >= 1 =>
             \A k \in 1..w :
               /\ out.mean_def[k].den > 0
               /\ out.mean_def[k].num * n
                    = ColumnTotal(RowIds, FirstCol20 + k - 1) * out.mean_def[k].den
        /\ n = 1 =>
             \A k \in 1..w :
               out.mean_def[k].num
                 = Data.rows[1][FirstCol20 + k - 1] * out.mean_def[k].den

\* two records whose values differ in a date column: the mean is 1/2
C8_Witness ==
  /\ call.op = "get_mean_series" /\ out.status = "ok"
  /\ Len(Data.rows) = 2
  /\ Len(out.mean_def) >= 2
  /\ out.mean_def[1] = [num |-> 1, den |-> 2]
  /\ Data.rows[1] # Data.rows[2]

-----------------------------------------------------------------------------
(* rezero_series *)

\* the month of a three-letter abbreviation, 0 when it is none
MonthOf(abbr) ==
  CASE abbr = <<"J","a","n">> -> 1  [] abbr = <<"F","e","b">> -> 2
    [] abbr = <<"M","a","r">> -> 3  [] abbr = <<"A","p","r">> -> 4
    [] abbr = <<"M","a","y">> -> 5  [] abbr = <<"J","u","n">> -> 6
    [] abbr = <<"J","u","l">> -> 7  [] abbr = <<"A","u","g">> -> 8
    [] abbr = <<"S","e","p">> -> 9  [] abbr = <<"O","c","t">> -> 10
    [] abbr = <<"N","o","v">> -> 11 [] abbr = <<"D","e","c">> -> 12
    [] OTHER -> 0

\* date2num(dt.strptime(zerodate, '%b-%Y').date()) on an 8-character string:
\* the first day of the month; ok = FALSE is strptime's ValueError
ParseMonYear(str) ==
  IF \/ Len(str) # 8
     \/ MonthOf(SubSeq(str, 1, 3)) = 0
     \/ str[4] # "-"
     \/ \E i \in 5..8 : ~IsDigit(str[i])
  THEN [ok |-> FALSE, num |-> 0]
  ELSE LET y == 1000 * DigitVal(str[5]) + 100 * DigitVal(str[6])
                + 10 * DigitVal(str[7]) + DigitVal(str[8])
       IN  IF y >= 1
           THEN [ok |-> TRUE, num |-> date2num(y, MonthOf(SubSeq(str, 1, 3)), 1)]
           ELSE [ok |-> FALSE, num |-> 0]

\* the last of the nearest dates where argmin gives the first
NearestDateIndexLast(dates, dateasnum) ==
  ArgMinLastFrom([i \in 1..Len(dates) |-> Abs(dates[i] - dateasnum)], 2, 1) - 1

\* idx = (np.abs(dates - dateasnum)).argmin(), 0-based
NearestDateIndex(dates, dateasnum) ==
  NpArgMin([i \in 1..Len(dates) |-> Abs(dates[i] - dateasnum)])

\* newdata = series - series[idx]
Rezeroed(series, idx) ==
  [i \in 1..Len(series) |-> series[i] - series[idx + 1]]

rezero_series(series, dates, zerodate, zerodateasfloat) ==
  LET parsed == IF zerodateasfloat = 0
                THEN ParseMonYear(zerodate)
                ELSE [ok |-> TRUE, num |-> zerodate]
  IN
  IF ~parsed.ok
  THEN [status |-> "ValueError"]                \* strptime
  ELSE IF Len(dates) = 0
  THEN [status |-> "ValueError"]                \* argmin of an empty array
  ELSE
    LET idx == NearestDateIndex(dates, parsed.num) IN
    IF idx + 1 > Len(series)
    THEN [status |-> "IndexError"]
    ELSE [status |-> "ok", idx |-> idx, dateasnum |-> parsed.num,
          newdata |-> Rezeroed(series, idx)]

RezeroSeries ==
  /\ call' = [op |-> "rezero_series"]
  /\ out' = rezero_series(inp.series, inp.dates, inp.zerodate, inp.zerodateasfloat)
  /\ UNCHANGED <<Data, inp>>

\* most points of a series
MaxN == 3
\* largest value of a series
MaxSeriesVal == 2

\* date2num of 2018-01-01, of 30 and of 32 days later: 2018-02-01 lies
\* midway between the last two
SeriesDates == {date2num(2018, 1, 1), date2num(2018, 1, 31), date2num(2018, 2, 2)}

\* zerodate given as 'MMM-YYYY'; the last one is no such string
ZeroDateStrings ==
  { <<"J","a","n","-","2","0","1","8">>,
    <<"F","e","b","-","2","0","1","8">>,
    <<"2","0","1","8","-","0","1","1">> }

\* zerodate given as a float: 2018-01-01 and 2018-01-16
ZeroDateNums == {date2num(2018, 1, 1), date2num(2018, 1, 16)}

\* a series and its date axis, of the same length
SeriesInputs ==
  UNION { [series : [1..n -> 0..MaxSeriesVal], dates : [1..n -> SeriesDates]]
          : n \in 0..MaxN }

NoData == [headings |-> <<>>, rows |-> <<>>]

InitRezero ==
  /\ Data = NoData
  /\ \E sd \in SeriesInputs :
       \/ \E z \in ZeroDateStrings :
            inp = [series |-> sd.series, dates |-> sd.dates,
                   zerodate |-> z, zerodateasfloat |-> 0]
       \/ \E z \in ZeroDateNums :
            inp = [series |-> sd.series, dates |-> sd.dates,
                   zerodate |-> z, zerodateasfloat |-> 1]
  /\ call = NoCall
  /\ out = NoOut

NextRezero == RezeroSeries

SpecRezero == InitRezero /\ [][NextRezero]_vars

-----------------------------------------------------------------------------
(* Claim on rezero_series *)

\* the reference date of the call, in days since 1970-01-01
ReferenceDay ==
  IF inp.zerodateasfloat = 1 THEN inp.zerodate
  ELSE IF inp.zerodate[1] = "J" THEN 17532 ELSE 17563

\* C7: rezero_series picks the first index whose date has the minimum
\* absolute difference from the reference date and subtracts the value at
\* that index from every value: the result is zero at that index and every
\* value moved by the same constant; rezeroed at its own first date, the
\* series starts with zero.
C7_RezeroAtNearestDate ==
  (call.op = "rezero_series" /\ out.status = "ok") =>
    LET n == Len(inp.dates)
        k == out.idx + 1
        D(i) == Abs(inp.dates[i] - ReferenceDay)
    IN  /\ k \in 1..n
        /\ \A i \in 1..n : D(k) <= D(i)
        /\ \A i \in 1..(k - 1) : D(i) > D(k)
        /\ Len(out.newdata) = Len(inp.series)
        /\ out.newdata[k] = 0
        /\ \A i \in 1..n : inp.series[i] - out.newdata[i] = inp.series[k]
        /\ ReferenceDay = inp.dates[1] => out.newdata[1] = 0

\* two dates tie as nearest to the reference, the first of them was taken and
\* the series moved by a constant other than zero
C7_Witness ==
  /\ call.op = "rezero_series" /\ out.status = "ok"
  /\ \E i, j \in 1..Len(inp.dates) :
       /\ i < j
       /\ inp.dates[i] # inp.dates[j]
       /\ Abs(inp.dates[i] - ReferenceDay) = Abs(inp.dates[j] - ReferenceDay)
       /\ out.idx + 1 = i
       /\ inp.series[i] # inp.series[j]
       /\ inp.series[i] # 0

-----------------------------------------------------------------------------
(* inpolygon and extract_from_polygon *)

\* One edge (a -> b) of matplotlib's point_in_path_impl, which
\* Path.contains_points runs with radius 0: the +X ray from the query t
\* crosses the edge when the end points lie on opposite sides of the ray (a
\* vertex with y >= ty counts as above) and the crossing is at or right of t.
EdgeCrossed(ax, ay, bx, by, tx, ty) ==
  LET yflag0 == ay >= ty
      yflag1 == by >= ty
  IN  /\ yflag0 # yflag1
      /\ (((by - ty) * (ax - bx) >= (bx - tx) * (ay - by)) <=> yflag1)

\* the edges of the path: vertex i to vertex i + 1, the last one back to the
\* first (the path is closed on its first vertex)
NextVertex(k, i) == IF i = k THEN 1 ELSE i + 1

\* any crossing instead of an odd number of crossings
PointInPathAny(tx, ty, xv, yv) ==
  \E i \in 1..Len(xv) :
    EdgeCrossed(xv[i], yv[i], xv[NextVertex(Len(xv), i)],
                yv[NextVertex(Len(xv), i)], tx, ty)

\* Path(vertices).contains_points for one point: the parity of the edges the
\* ray crosses
PointInPath(tx, ty, xv, yv) ==
  LET k == Len(xv)
      crossed == {i \in 1..k :
                    EdgeCrossed(xv[i], yv[i], xv[NextVertex(k, i)],
                                yv[NextVertex(k, i)], tx, ty)}
  IN  Cardinality(crossed) % 2 = 1

\* inpolygon(xq, yq, xv, yv) on 1-D arrays: the mask, in the order of the
\* query points
inpolygon(xq, yq, xv, yv) ==
  [i \in 1..Len(xq) |-> PointInPath(xq[i], yq[i], xv, yv)]

RECURSIVE MaskFrom(_, _, _)
MaskFrom(rows, mask, i) ==
  IF i > Len(rows) THEN <<>>
  ELSE (IF mask[i] THEN <<rows[i]>> ELSE <<>>) \o MaskFrom(rows, mask, i + 1)

\* Data[inbox]: the rows whose mask entry is True, in their order
BooleanIndex(D, mask) ==
  [headings |-> D.headings, rows |-> MaskFrom(D.rows, mask, 1)]

\* latitude and longitude passed to inpolygon in each other's place
extract_from_polygon_swapped(Polylon, Polylat, D) ==
  LET inbox == inpolygon(LatColumn(D), LonColumn(D), Polylon, Polylat)
  IN  [status |-> "ok", inbox |-> inbox, Datafilt |-> BooleanIndex(D, inbox)]

extract_from_polygon(Polylon, Polylat, D) ==
  LET lat == LatColumn(D)
      lon == LonColumn(D)
      inbox == inpolygon(lon, lat, Polylon, Polylat)
  IN  [status |-> "ok", inbox |-> inbox, Datafilt |-> BooleanIndex(D, inbox)]

ExtractFromPolygon ==
  /\ call' = [op |-> "extract_from_polygon"]
  /\ out' = extract_from_polygon(inp.Polylon, inp.Polylat, Data)
  /\ UNCHANGED <<Data, inp>>

Inpolygon ==
  /\ call' = [op |-> "inpolygon"]
  /\ out' = [status |-> "ok",
             mask |-> inpolygon(inp.xq, inp.yq, inp.Polylon, inp.Polylat)]
  /\ UNCHANGED <<Data, inp>>

\* The polygons a caller passes, in half units: a square, a rectangle twice
\* as wide as high, a right triangle and an L (not convex), with the lower
\* left corner at (o, o) and the side s.
ShapeVertices(shape) ==
  LET o == shape.o
      s == shape.s
  IN  CASE shape.kind = "square" ->
             << <<o, o>>, <<o + s, o>>, <<o + s, o + s>>, <<o, o + s>> >>
        [] shape.kind = "rect" ->
             << <<o, o>>, <<o + 2 * s, o>>, <<o + 2 * s, o + s>>, <<o, o + s>> >>
        [] shape.kind = "triangle" ->
             << <<o, o>>, <<o + s, o>>, <<o, o + s>> >>
        [] shape.kind = "ell" ->
             << <<o, o>>, <<o + 2 * s, o>>, <<o + 2 * s, o + s>>,
                <<o + s, o + s>>, <<o + s, o + 2 * s>>, <<o, o + 2 * s>> >>

\* the same ring started at vertex r + 1
Rotated(vs, r) == [i \in 1..Len(vs) |-> vs[((i - 1 + r) % Len(vs)) + 1]]

\* the same ring walked the other way round
Reversed(vs) == [i \in 1..Len(vs) |-> vs[Len(vs) + 1 - i]]

\* the ring of a shape from each start vertex, in both directions, as the
\* arguments [shape, Polylon, Polylat]
PolygonsOf(shapes) ==
  UNION {
    LET vs == ShapeVertices(sh) IN
    { LET ring == IF rev THEN Reversed(Rotated(vs, r)) ELSE Rotated(vs, r)
      IN  [shape |-> sh,
           Polylon |-> [i \in 1..Len(ring) |-> ring[i][1]],
           Polylat |-> [i \in 1..Len(ring) |-> ring[i][2]]]
      : r \in 0..(Len(vs) - 1), rev \in BOOLEAN }
    : sh \in shapes }

\* most rows of a dataset of the polygon specification
MaxPolyRows == 2
\* largest coordinate (half units) of a record of the polygon specification
MaxPolyCoord == 2

FilterShapes ==
  { [kind |-> "square", o |-> 0, s |-> 1],
    [kind |-> "rect", o |-> 0, s |-> 1],
    [kind |-> "triangle", o |-> 0, s |-> 2] }

PolyDatasets ==
  UNION {
    { [headings |-> HeadNear,
       rows |-> [i \in 1..n |-> <<la[i], lo[i], i, 10 * i>>]] :
        la \in [1..n -> 0..MaxPolyCoord], lo \in [1..n -> 0..MaxPolyCoord] }
    : n \in 0..MaxPolyRows }

InitPolygon ==
  /\ Data \in PolyDatasets
  /\ inp \in PolygonsOf(FilterShapes)
  /\ call = NoCall
  /\ out = NoOut

NextPolygon == ExtractFromPolygon

SpecPolygon == InitPolygon /\ [][NextPolygon]_vars

\* most points of a query array passed to inpolygon
MaxQueryPts == 1
\* largest coordinate (half units) of a query point
MaxQueryCoord == 4

QueryShapes ==
  { [kind |-> "square", o |-> 0, s |-> 2],
    [kind |-> "square", o |-> 1, s |-> 2],
    [kind |-> "triangle", o |-> 1, s |-> 2],
    [kind |-> "ell", o |-> 0, s |-> 2] }

QueryArrays ==
  UNION { [xq : [1..n -> 0..MaxQueryCoord], yq : [1..n -> 0..MaxQueryCoord]]
          : n \in 0..MaxQueryPts }

InitInpolygon ==
  /\ Data = NoData
  /\ \E poly \in PolygonsOf(QueryShapes), q \in QueryArrays :
       inp = [shape |-> poly.shape, Polylon |-> poly.Polylon,
              Polylat |-> poly.Polylat, xq |-> q.xq, yq |-> q.yq]
  /\ call = NoCall
  /\ out = NoOut

NextInpolygon == Inpolygon

SpecInpolygon == InitInpolygon /\ [][NextInpolygon]_vars

-----------------------------------------------------------------------------
(* Claims on the polygon filter and the point-in-polygon test *)

\* the rows whose (longitude, latitude) passes the point-in-polygon test
PassingRows ==
  {i \in RowIds :
     PointInPath(Data.rows[i][ColOf(Data.headings, LblLongitude)],
                 Data.rows[i][ColOf(Data.headings, LblLatitude)],
                 inp.Polylon, inp.Polylat)}

\* the k-th smallest element of a set of numbers
KthOf(S, k) == CHOOSE i \in S : Cardinality({j \in S : j < i}) = k - 1

\* C3: extract_from_polygon returns exactly the records whose (longitude,
\* latitude) passes the point-in-polygon test, in their original relative
\* order; when no record passes, the result is empty and no error is raised.
C3_FilterKeepsPassingRowsInOrder ==
  (call.op = "extract_from_polygon") =>
    /\ out.status = "ok"
    /\ out.Datafilt.headings = Data.headings
    /\ Len(out.Datafilt.rows) = Cardinality(PassingRows)
    /\ \A k \in 1..Len(out.Datafilt.rows) :
         out.Datafilt.rows[k] = Data.rows[KthOf(PassingRows, k)]
    /\ PassingRows = {} => out.Datafilt.rows = <<>>

\* of two records the first, whose latitude and longitude differ, does not
\* pass and the second does: the result is the second record alone
C3_Witness ==
  /\ call.op = "extract_from_polygon" /\ out.status = "ok"
  /\ Len(Data.rows) = 2
  /\ Len(out.Datafilt.rows) = 1
  /\ out.Datafilt.rows[1] = Data.rows[2]
  /\ Data.rows[1][1] # Data.rows[1][2]

\* the closed region and the interior of a shape
InClosedShape(shape, x, y) ==
  LET o == shape.o
      s == shape.s
  IN  CASE shape.kind = "square" ->
             o <= x /\ x <= o + s /\ o <= y /\ y <= o + s
        [] shape.kind = "rect" ->
             o <= x /\ x <= o + 2 * s /\ o <= y /\ y <= o + s
        [] shape.kind = "triangle" ->
             o <= x /\ o <= y /\ (x - o) + (y - o) <= s
        [] shape.kind = "ell" ->
             \/ o <= x /\ x <= o + 2 * s /\ o <= y /\ y <= o + s
             \/ o <= x /\ x <= o + s /\ o <= y /\ y <= o + 2 * s

InOpenShape(shape, x, y) ==
  LET o == shape.o
      s == shape.s
  IN  CASE shape.kind = "square" ->
             o < x /\ x < o + s /\ o < y /\ y < o + s
        [] shape.kind = "rect" ->
             o < x /\ x < o + 2 * s /\ o < y /\ y < o + s
        [] shape.kind = "triangle" ->
             o < x /\ o < y /\ (x - o) + (y - o) < s
        [] shape.kind = "ell" ->
             \/ o < x /\ x < o + 2 * s /\ o < y /\ y < o + s
             \/ o < x /\ x < o + s /\ o < y /\ y < o + 2 * s

QueryIds == 1..Len(inp.xq)

\* C4 as stated: inpolygon reports a point inside exactly when it lies
\* strictly inside the polygon or on its boundary (every vertex and edge
\* point included).
C4_BoundaryCountsAsInside ==
  (call.op = "inpolygon") =>
    \A i \in QueryIds :
      out.mask[i] <=> InClosedShape(inp.shape, inp.xq[i], inp.yq[i])


\* C4 (amended): inpolygon reports every point strictly inside the polygon
\* inside and every point strictly outside it outside: for the unit square
\* (0.5, 0.5) is inside and (2, 2) outside.  A boundary point is inside or
\* outside depending on the edge it lies on and on the direction of the
\* ring; the vertex (0, 0) of the unit square is reported outside.
C4_InteriorInsideExteriorOutside ==
  (call.op = "inpolygon") =>
    \A i \in QueryIds :
      /\ InOpenShape(inp.shape, inp.xq[i], inp.yq[i]) => out.mask[i]
      /\ ~InClosedShape(inp.shape, inp.xq[i], inp.yq[i]) => ~out.mask[i]
      /\ ( /\ inp.shape = [kind |-> "square", o |-> 0, s |-> 2]
           /\ inp.xq[i] = 0 /\ inp.yq[i] = 0 ) => ~out.mask[i]

\* the centre (0.5, 0.5) of the unit square was queried and reported inside
C4_Witness ==
  /\ call.op = "inpolygon"
  /\ inp.shape = [kind |-> "square", o |-> 0, s |-> 2]
  /\ inp.xq = <<1>> /\ inp.yq = <<1>>
  /\ out.mask = <<TRUE>>

-----------------------------------------------------------------------------
(* segment_line_to_boxes *)

\* Coordinates of the result are quotients.  A sample point is carried as
\* its numerator over LinDen = nopoints - 1 (1 for a single point), a box
\* corner as its numerator over LinDen * NormLen.

\* longest transect, in whole metres
MaxLen == 4
\* largest spacing, in metres
MaxSpacing == 2
\* largest half-width, in metres
MaxWidth == 1
\* largest length of the perpendicular vector, in metres
MaxNormLen == 2
\* largest coordinate of an end point of the transect
MaxXY == 1

\* geopy.distance.distance(p, q).m, in whole metres: 0 for coincident
\* points; between two different points any length is taken, a transect
\* shorter than a metre included
GeodesicMetres(p, q) == IF p = q THEN {0} ELSE 0..MaxLen

\* geopy.distance.distance((0, 0), perp).m, the divisor of the unit normal:
\* 0.0 for the zero vector and positive for any other
NormMetres(perp) == IF perp = <<0, 0>> THEN {0} ELSE 1..MaxNormLen

\* int(np.floor(Len / spacing))
NoPoints(Len_m, spacing) == Len_m \div spacing

LinDenOf(num) == IF num > 1 THEN num - 1 ELSE 1

\* np.linspace(start, stop, num=num): the numerators over LinDenOf(num);
\* empty for num = 0, the start alone for num = 1
Linspace(start, stop, num) ==
  [i \in 1..num |-> start * LinDenOf(num) + (i - 1) * (stop - start)]

\* the corners of box i (1-based), numerators over g.LinDen * g.NormLen:
\* the sample point i or i + 1 moved by -width or +width times the unit
\* normal perp / NormLen
TopRight(g, i) ==
  << g.lons[i] * g.NormLen - g.perp[1] * g.width * g.LinDen,
     g.lats[i] * g.NormLen - g.perp[2] * g.width * g.LinDen >>
\* topleft taken at the sample point i, the one topright is taken at
TopLeftAtSamePoint(g, i) ==
  << g.lons[i] * g.NormLen - g.perp[1] * g.width * g.LinDen,
     g.lats[i] * g.NormLen - g.perp[2] * g.width * g.LinDen >>
TopLeft(g, i) ==
  << g.lons[i + 1] * g.NormLen - g.perp[1] * g.width * g.LinDen,
     g.lats[i + 1] * g.NormLen - g.perp[2] * g.width * g.LinDen >>
BotRight(g, i) ==
  << g.lons[i] * g.NormLen + g.perp[1] * g.width * g.LinDen,
     g.lats[i] * g.NormLen + g.perp[2] * g.width * g.LinDen >>
BotLeft(g, i) ==
  << g.lons[i + 1] * g.NormLen + g.perp[1] * g.width * g.LinDen,
     g.lats[i + 1] * g.NormLen + g.perp[2] * g.width * g.LinDen >>

\* the ring ended on its fourth corner instead of its first
RectOpen(g, i, c) ==
  << TopRight(g, i)[c], TopLeft(g, i)[c], BotLeft(g, i)[c],
     BotRight(g, i)[c], BotRight(g, i)[c] >>

\* rectx (c = 1) and recty (c = 2)
Rect(g, i, c) ==
  << TopRight(g, i)[c], TopLeft(g, i)[c], BotLeft(g, i)[c],
     BotRight(g, i)[c], TopRight(g, i)[c] >>

\* Len_m and NormLen are the two lengths geopy returns in the call
segment_line_to_boxes(x0, x1, y0, y1, spacing, width, Len_m, NormLen) ==
  LET nopoints == NoPoints(Len_m, spacing)
      lats == Linspace(y0, y1, nopoints)
      lons == Linspace(x0, x1, nopoints)
      linevector == <<x1 - x0, y1 - y0>>
      perpvector == <<-linevector[2], linevector[1]>>
  IN
  IF NormLen = 0
  THEN [status |-> "ZeroDivisionError", nopoints |-> nopoints]  \* 1/NormLen
  ELSE IF Len(lats) - 1 < 0
  THEN [status |-> "ValueError", nopoints |-> nopoints]  \* np.zeros((-1, 5))
  ELSE
    LET g == [lons |-> lons, lats |-> lats, LinDen |-> LinDenOf(nopoints),
              NormLen |-> NormLen, perp |-> perpvector, width |-> width]
    IN  [status |-> "ok", nopoints |-> nopoints,
         BOXESX |-> [i \in 1..(Len(lats) - 1) |-> Rect(g, i, 1)],
         BOXESY |-> [i \in 1..(Len(lats) - 1) |-> Rect(g, i, 2)],
         lats |-> lats, lons |-> lons,
         LinDen |-> g.LinDen, Den |-> g.LinDen * NormLen]

SegmentLineToBoxes ==
  /\ call' = [op |-> "segment_line_to_boxes"]
  /\ out' = segment_line_to_boxes(inp.x0, inp.x1, inp.y0, inp.y1,
                                  inp.spacing, inp.width, inp.Len_m, inp.NormLen)
  /\ UNCHANGED <<Data, inp>>

\* a transect, a positive spacing and a positive half-width, with the two
\* lengths geopy returns for the transect
Transects ==
  UNION {
    [x0 : {t.x0}, x1 : {t.x1}, y0 : {t.y0}, y1 : {t.y1},
     spacing : 1..MaxSpacing, width : 1..MaxWidth,
     Len_m : GeodesicMetres(<<t.y0, t.x0>>, <<t.y1, t.x1>>),
     NormLen : NormMetres(<<-(t.y1 - t.y0), t.x1 - t.x0>>)]
    : t \in [x0 : 0..MaxXY, x1 : 0..MaxXY, y0 : 0..MaxXY, y1 : 0..MaxXY] }

InitBoxes ==
  /\ Data = NoData
  /\ inp \in Transects
  /\ call = NoCall
  /\ out = NoOut

NextBoxes == SegmentLineToBoxes

SpecBoxes == InitBoxes /\ [][NextBoxes]_vars

-----------------------------------------------------------------------------
(* Claims on segment_line_to_boxes *)

\* C5 as stated: for every transect and positive spacing the call returns
\* without error exactly max(0, floor(L / spacing) - 1) boxes, an empty box
\* sequence whenever floor(L / spacing) < 2.
C5_ReturnsClampedBoxCount ==
  (call.op = "segment_line_to_boxes") =>
    LET n == inp.Len_m \div inp.spacing
    IN  /\ out.status = "ok"
        /\ Len(out.BOXESX) = (IF n - 1 > 0 THEN n - 1 ELSE 0)
        /\ Len(out.BOXESY) = Len(out.BOXESX)

\* C6: every box returned is a closed ring of five points: in the x and in
\* the y corner array the fifth point equals the first.
C6_BoxRingIsClosed ==
  (call.op = "segment_line_to_boxes" /\ out.status = "ok") =>
    /\ Len(out.BOXESY) = Len(out.BOXESX)
    /\ \A b \in 1..Len(out.BOXESX) :
         /\ Len(out.BOXESX[b]) = 5 /\ Len(out.BOXESY[b]) = 5
         /\ out.BOXESX[b][5] = out.BOXESX[b][1]
         /\ out.BOXESY[b][5] = out.BOXESY[b][1]

\* at least two boxes were returned, and the four corners of the first are
\* four different points
C6_Witness ==
  /\ call.op = "segment_line_to_boxes" /\ out.status = "ok"
  /\ Len(out.BOXESX) >= 2
  /\ Cardinality({<<out.BOXESX[1][c], out.BOXESY[1][c]>> : c \in 1..4}) = 4

-----------------------------------------------------------------------------
(* fit_sinusoid_to_series *)

\* np.diff(Series)
Diff(s) == [i \in 1..(Len(s) - 1) |-> s[i + 1] - s[i]]

\* np.argwhere(np.diff(Series) < 0): a plateau is no downturn
DownturnsStrict(s) == {i \in 1..(Len(s) - 1) : Diff(s)[i] < 0}

\* np.argwhere(np.diff(Series) <= 0), 1-based
Downturns(s) == {i \in 1..(Len(s) - 1) : Diff(s)[i] <= 0}

\* np.argwhere(...)[0][0], 0-based; -1 stands for the IndexError of [0] on
\* an empty array
FirstDownturn(s) ==
  IF Downturns(s) = {} THEN -1
  ELSE (CHOOSE i \in Downturns(s) : \A j \in Downturns(s) : i <= j) - 1

\* guess_period
GuessPeriod == 365

\* the guess with the time offset measured to the point after the first
\* downturn, t[k + 1] in the indices of the code
SinusoidGuessAfterDownturn(Series, t, k) ==
  [amp    |-> [num |-> NpMax(Series) - NpMin(Series), den |-> 2],
   period |-> GuessPeriod,
   phase  |-> [num |-> GuessPeriod - 4 * (t[k + 2] - t[1]), den |-> 4],
   mean   |-> [num |-> NpSum(Series), den |-> Len(Series)]]

\* The initial guess [guess_amp, guess_period, guess_phase, guess_mean], k
\* the first downturn (0-based): the amplitude over 2, the phase over 4, the
\* mean over the number of points
SinusoidGuess(Series, t, k) ==
  [amp    |-> [num |-> NpMax(Series) - NpMin(Series), den |-> 2],
   period |-> GuessPeriod,
   phase  |-> [num |-> GuessPeriod - 4 * (t[k + 1] - t[1]), den |-> 4],
   mean   |-> [num |-> NpSum(Series), den |-> Len(Series)]]

\* a fit that looks at sln.success and raises when the solver gave up
fit_sinusoid_to_series_checked(Series, dates, sln) ==
  IF FirstDownturn(Series) < 0
  THEN [status |-> "IndexError"]
  ELSE IF ~sln.success
  THEN [status |-> "FitDidNotConverge"]
  ELSE [status |-> "ok",
        guess |-> SinusoidGuess(Series, dates, FirstDownturn(Series)),
        misfit |-> [num |-> sln.fun, den |-> Len(dates)],
        est_amp |-> sln.x[1], est_period |-> sln.x[2],
        est_phase |-> sln.x[3], est_mean |-> sln.x[4]]

\* sln is what scipy.optimize.minimize returns for the call: sln.x, sln.fun
\* and sln.success
fit_sinusoid_to_series(Series, dates, sln) ==
  LET k == FirstDownturn(Series) IN
  IF k < 0
  THEN [status |-> "IndexError"]
  ELSE [status |-> "ok",
        guess |-> SinusoidGuess(Series, dates, k),
        misfit |-> [num |-> sln.fun, den |-> Len(dates)],
        est_amp |-> sln.x[1], est_period |-> sln.x[2],
        est_phase |-> sln.x[3], est_mean |-> sln.x[4]]

FitSinusoidToSeries ==
  /\ call' = [op |-> "fit_sinusoid_to_series"]
  /\ out' = fit_sinusoid_to_series(inp.Series, inp.dates, inp.sln)
  /\ UNCHANGED <<Data, inp>>

-----------------------------------------------------------------------------
(* fit_straight_line_to_series *)

\* t - t[0], the days since the first date
Elapsed(t) == [i \in 1..Len(t) |-> t[i] - t[1]]

\* np.sum(a * b)
Dot(a, b) == NpSum([i \in 1..Len(a) |-> a[i] * b[i]])

\* optimize_func: the residuals x[0]*(t-t[0]) + x[1] - data of the line x,
\* whose slope and intercept are numerators over x.den; the residuals are
\* numerators over x.den too
optimize_func(x, t, data) ==
  [i \in 1..Len(data) |-> x.slope * Elapsed(t)[i] + x.intercept - data[i] * x.den]

\* What leastsq converges to: the line that minimises the sum of the squares
\* of optimize_func, from the normal equations, slope and intercept as
\* numerators over the common denominator den (positive when two dates
\* differ)
LeastSquaresLine(t, data) ==
  LET x == Elapsed(t)
      N == Len(data)
  IN  [slope     |-> N * Dot(x, data) - NpSum(x) * NpSum(data),
       intercept |-> NpSum(data) * Dot(x, x) - NpSum(x) * Dot(x, data),
       den       |-> N * Dot(x, x) - NpSum(x) * NpSum(x)]

\* guess_slope and guess_intercept
LineGuess(Series, t) ==
  [slope     |-> [num |-> NpMax(Series) - NpMin(Series), den |-> t[Len(t)] - t[1]],
   intercept |-> Series[1]]

\* data_fit = est_slope * t + est_intercept, without the shift to the first
\* date
DataFitNoOffset(est, t) == [i \in 1..Len(t) |-> est.slope * t[i] + est.intercept]

\* data_fit = est_slope * (t - t[0]) + est_intercept, numerators over est.den
DataFit(est, t) == [i \in 1..Len(t) |-> est.slope * Elapsed(t)[i] + est.intercept]

\* misfit = np.sum(np.sqrt(np.abs(Series**2 - data_fit**2))) / len(dates):
\* kept as the numbers under the square roots, numerators over den, and the
\* number of dates the sum is divided by
LineMisfit(Series, data_fit, den, dates) ==
  [radicands |-> [i \in 1..Len(Series) |->
                    Abs(Series[i] * Series[i] * den * den - data_fit[i] * data_fit[i])],
   den       |-> den * den,
   n         |-> Len(dates)]

\* lsq is what leastsq returns for the call, (x, ier); the code keeps only
\* lsq.x.  Series[0] raises on an empty series, and leastsq raises when
\* there are fewer residuals than the two parameters.
fit_straight_line_to_series(Series, dates, lsq) ==
  IF Len(Series) = 0
  THEN [status |-> "IndexError"]
  ELSE IF Len(Series) < 2
  THEN [status |-> "TypeError"]
  ELSE [status |-> "ok",
        guess |-> LineGuess(Series, dates),
        misfit |-> LineMisfit(Series, DataFit(lsq.x, dates), lsq.x.den, dates),
        est_slope |-> [num |-> lsq.x.slope, den |-> lsq.x.den],
        est_intercept |-> [num |-> lsq.x.intercept, den |-> lsq.x.den]]

FitStraightLineToSeries ==
  /\ call' = [op |-> "fit_straight_line_to_series"]
  /\ out' = fit_straight_line_to_series(inp.Series, inp.dates, inp.lsq)
  /\ UNCHANGED <<Data, inp>>

-----------------------------------------------------------------------------
(* inputs of the two fits *)

\* most points of a series to fit
MaxFitN == 3
\* largest value of a series to fit
MaxFitVal == 2
\* largest number of days between two dates of a series to fit
MaxStep == 2
\* largest final objective value of the solver
MaxFun == 1

\* steepest slope of an exactly linear series to fit
MaxSlope == 2
\* largest intercept of an exactly linear series to fit
MaxIntercept == 5

\* a date axis of n dates from 2018-01-01 in equal steps
FitDates(n, step) == [i \in 1..n |-> date2num(2018, 1, 1) + step * (i - 1)]

\* the series a*(t - t[0]) + b on the dates t
LineSeries(a, b, t) == [i \in 1..Len(t) |-> a * (t[i] - t[1]) + b]

\* a date axis and a series on it: every series of small values, and the
\* exactly linear series of small slope and intercept
FitInputs ==
  UNION {
    { [Series |-> s, dates |-> FitDates(ns[1], ns[2])]
      : s \in [1..ns[1] -> 0..MaxFitVal] \cup
               {LineSeries(a, b, FitDates(ns[1], ns[2]))
                  : a \in (-MaxSlope)..MaxSlope, b \in 0..MaxIntercept} }
    : ns \in (0..MaxFitN) \X (1..MaxStep) }

\* bnds: the box the solver keeps (amplitude, period, phase, mean) in
SinusoidBounds == << <<0, 30>>, <<0, 400>>, <<-20, 400>>, <<0, 100>> >>

\* results of the solver: a corner of the box or a point inside it, reported
\* as converged or not
SolverResults ==
  [x : { [i \in 1..4 |-> SinusoidBounds[i][1]], <<10, 365, 91, 20>> },
   fun : 0..MaxFun,
   success : BOOLEAN]

\* ier of leastsq: 1 to 4 report a solution, 5 that the limit of function
\* calls was reached
IerConverged == 1
IerMaxfev == 5

\* an iterate leastsq stopped at without converging
LastIterate == [slope |-> 1, intercept |-> 1, den |-> 1]

\* the series lies exactly on its least-squares line
ZeroResidual(Series, dates) ==
  \A i \in 1..Len(Series) :
    optimize_func(LeastSquaresLine(dates, Series), dates, Series)[i] = 0

\* Results of leastsq for the call: the least-squares line reported as
\* converged, or, unless the series lies exactly on a line, an iterate with
\* the report that the solver gave up.  With fewer than two points leastsq
\* returns nothing.
LeastsqResults(Series, dates) ==
  IF Len(Series) < 2
  THEN {[x |-> LastIterate, ier |-> IerMaxfev]}
  ELSE {[x |-> LeastSquaresLine(dates, Series), ier |-> IerConverged]} \cup
       (IF ZeroResidual(Series, dates)
        THEN {}
        ELSE {[x |-> LastIterate, ier |-> IerMaxfev]})

InitFit ==
  /\ Data = NoData
  /\ \E f \in FitInputs, sln \in SolverResults :
       \E lsq \in LeastsqResults(f.Series, f.dates) :
         inp = [Series |-> f.Series, dates |-> f.dates, sln |-> sln, lsq |-> lsq]
  /\ call = NoCall
  /\ out = NoOut

NextFit == FitSinusoidToSeries \/ FitStraightLineToSeries

SpecFit == InitFit /\ [][NextFit]_vars

-----------------------------------------------------------------------------
(* Claim on the failure of the sinusoidal fit *)

\* C10: the sinusoidal fit fails with an error and returns no fit result
\* exactly when the series has no index i with values[i+1] - values[i] <= 0,
\* that is when it is strictly increasing or has fewer than two points.
C10_SinusoidFailsIffNoDownturn ==
  (call.op = "fit_sinusoid_to_series") =>
    LET s == inp.Series
        increasing == \A i \in 1..(Len(s) - 1) : s[i + 1] > s[i]
    IN  /\ out.status \in {"ok", "IndexError"}
        /\ out.status = "IndexError" <=> increasing
        /\ out.status = "IndexError" => DOMAIN out = {"status"}
        /\ out.status = "ok" =>
             {"misfit", "est_amp", "est_period", "est_phase", "est_mean"}
               \subseteq DOMAIN out

\* a strictly increasing series of three points was fitted and the fit
\* failed
C10_Witness ==
  /\ call.op = "fit_sinusoid_to_series"
  /\ Len(inp.Series) = 3
  /\ inp.Series[1] < inp.Series[2] /\ inp.Series[2] < inp.Series[3]
  /\ out.status = "IndexError"

-----------------------------------------------------------------------------
(* Claim on a solver that does not converge *)

\* the solver of the call ran and reported that it did not converge
SolverGaveUp ==
  \/ /\ call.op = "fit_sinusoid_to_series"
     /\ FirstDownturn(inp.Series) >= 0
     /\ ~inp.sln.success
  \/ /\ call.op = "fit_straight_line_to_series"
     /\ Len(inp.Series) >= 2
     /\ inp.lsq.ier \notin 1..4

\* C11 as stated: for both the linear and the sinusoidal fit, when the
\* solver reports that it did not converge, the call fails with
\* FitDidNotConverge instead of returning the solver's last iterate.
C11_NonConvergenceRaises ==
  SolverGaveUp => out.status = "FitDidNotConverge"

\* C11, amended: for both the linear and the sinusoidal fit, when the solver
\* reports that it did not converge, the call raises nothing and returns
\* the solver's last iterate as the fit result, with the misfit computed
\* from it.
C11_NonConvergenceReturnsLastIterate ==
  SolverGaveUp =>
    /\ out.status = "ok"
    /\ call.op = "fit_sinusoid_to_series" =>
         /\ <<out.est_amp, out.est_period, out.est_phase, out.est_mean>> = inp.sln.x
         /\ out.misfit = [num |-> inp.sln.fun, den |-> Len(inp.dates)]
    /\ call.op = "fit_straight_line_to_series" =>
         /\ out.est_slope = [num |-> inp.lsq.x.slope, den |-> inp.lsq.x.den]
         /\ out.est_intercept = [num |-> inp.lsq.x.intercept, den |-> inp.lsq.x.den]

\* the solver of the sinusoidal fit gave up inside its box on a series of
\* three points, and the fit returned that point
C11_Witness ==
  /\ call.op = "fit_sinusoid_to_series"
  /\ Len(inp.Series) = 3
  /\ ~inp.sln.success
  /\ inp.sln.x = <<10, 365, 91, 20>>
  /\ out.status = "ok"
  /\ out.est_amp = 10

-----------------------------------------------------------------------------
(* remove_rows_all_zeros, and the core calls in sequence *)

\* the entries of a row (or of the headings) whose column label is not
\* among the labels
RECURSIVE DropFrom(_, _, _, _)
DropFrom(seq, headings, labels, c) ==
  IF c > Len(headings) THEN <<>>
  ELSE (IF headings[c] \in labels THEN <<>> ELSE <<seq[c]>>)
         \o DropFrom(seq, headings, labels, c + 1)

\* the frame without the columns of the labels
WithoutColumns(D, labels) ==
  [headings |-> DropFrom(D.headings, D.headings, labels, 1),
   rows |-> [i \in 1..Len(D.rows) |-> DropFrom(D.rows[i], D.headings, labels, 1)]]

\* a drop in place: the frame itself loses the columns
DataFrameDropInplace(D, labels) ==
  [result |-> WithoutColumns(D, labels), self |-> WithoutColumns(D, labels)]

\* Data.drop(labels, axis=1): the result is a new frame without the columns,
\* the frame itself (self) keeps them
DataFrameDrop(D, labels) ==
  [result |-> WithoutColumns(D, labels), self |-> D]

\* (data_raw.T != 0).any(): per row, whether some value is not zero
AnyNonZero(D) ==
  [i \in 1..Len(D.rows) |-> \E c \in 1..Len(D.rows[i]) : D.rows[i][c] # 0]

\* Data is the caller's frame after the call; drop raises KeyError when a
\* label is no column
remove_rows_all_zeros(D) ==
  LET labels == {LblLongitude, LblLatitude} IN
  IF \E l \in labels : \A c \in 1..Len(D.headings) : D.headings[c] # l
  THEN [status |-> "KeyError", Data |-> D]
  ELSE
    LET dropped == DataFrameDrop(D, labels)
        data_raw == dropped.result
        booool == AnyNonZero(data_raw)
    IN  [status |-> "ok", booool |-> booool,
         data_filtered |-> BooleanIndex(dropped.self, booool),
         Data |-> dropped.self]

RemoveRowsAllZeros ==
  /\ call' = [op |-> "remove_rows_all_zeros"]
  /\ out' = remove_rows_all_zeros(Data)
  /\ Data' = out'.Data
  /\ UNCHANGED inp

\* most rows of a dataset of the core specification
MaxCoreRows == 2
\* largest displacement of a dataset or series of the core specification
MaxCoreVal == 1

\* datasets with and without date columns, with rows of zeros among them
CoreDatasets ==
  UNION {
    { [headings |-> h, rows |-> [i \in 1..n |-> SerRow(h, i, a[i], b[i])]] :
        h \in {HeadPlain, HeadTrail, HeadNoDate},
        a \in [1..n -> 0..MaxCoreVal], b \in [1..n -> 0..MaxCoreVal] }
    : n \in 0..MaxCoreRows }

\* What the caller holds besides the dataset: a query point and factor, a
\* polygon, and a series of two dates with the date to re-zero at
CoreInputs ==
  { [lat |-> q.lat, lon |-> q.lon, factor |-> q.factor,
     Polylon |-> poly.Polylon, Polylat |-> poly.Polylat,
     series |-> s,
     dates |-> <<date2num(2018, 1, 1), date2num(2018, 1, 31)>>,
     zerodate |-> date2num(2018, 1, 31), zerodateasfloat |-> 1]
    : q \in {[lat |-> 0, lon |-> 0, factor |-> 2]},
      poly \in {p \in PolygonsOf({[kind |-> "square", o |-> 0, s |-> 1]}) :
                  p.Polylon[1] = 0 /\ p.Polylat[1] = 0 /\ p.Polylon[2] = 1},
      s \in [1..2 -> 0..MaxCoreVal] }

InitCore ==
  /\ Data \in CoreDatasets
  /\ inp \in CoreInputs
  /\ call = NoCall
  /\ out = NoOut

NextCore ==
  \/ ExtractFromPolygon
  \/ ExtractSeriesFromLatlon
  \/ GetMeanSeries
  \/ RezeroSeries
  \/ RemoveRowsAllZeros

SpecCore == InitCore /\ [][NextCore]_vars

-----------------------------------------------------------------------------
(* Claim on the inputs of the core calls *)

\* C12: extract_from_polygon, extract_series_from_latlon, get_mean_series,
\* rezero_series and remove_rows_all_zeros leave their input dataset and
\* input series unchanged: over any sequence of these calls every step
\* leaves every record, coordinate and value of the dataset, of the series
\* and of the other arguments as it was, the results being returned apart
\* from them.
C12_CoreCallsLeaveInputsUnchanged ==
  [][Data' = Data /\ inp' = inp]_vars

\* remove_rows_all_zeros returned fewer rows than the dataset of two rows
\* it was called on, and the dataset still has its two rows and its
\* coordinate columns
C12_Witness ==
  /\ call.op = "remove_rows_all_zeros"
  /\ out.status = "ok"
  /\ Len(out.data_filtered.rows) < Len(Data.rows)
  /\ Len(Data.rows) = 2
  /\ Data.headings = HeadPlain

-----------------------------------------------------------------------------
(* Claim on the fit of an exactly linear series *)

\* C13: fitting a straight line to a perfectly linear series of at least
\* two points, values[i] = a*(t[i] - t[0]) + b with a = p/q, returns the
\* slope a, the intercept b and a misfit of 0, the misfit being the mean
\* over all points of sqrt(|value^2 - fitted^2|): each number under a
\* square root is 0 and the sum is divided by the number of points.
C13_ExactLineIsRecovered ==
  (call.op = "fit_straight_line_to_series" /\ Len(inp.Series) >= 2) =>
    \A p \in (-(MaxSlope + MaxFitVal))..(MaxSlope + MaxFitVal), q \in 1..MaxStep,
       b \in 0..(MaxIntercept + MaxFitVal) :
      (\A i \in 1..Len(inp.Series) :
         inp.Series[i] * q = p * (inp.dates[i] - inp.dates[1]) + b * q)
      => /\ out.status = "ok"
         /\ out.est_slope.den > 0 /\ out.est_intercept.den > 0
         /\ out.est_slope.num * q = p * out.est_slope.den
         /\ out.est_intercept.num = b * out.est_intercept.den
         /\ out.misfit.n = Len(inp.Series)
         /\ Len(out.misfit.radicands) = Len(inp.Series)
         /\ \A i \in 1..Len(inp.Series) : out.misfit.radicands[i] = 0

\* the series 5, 7, 9 on three consecutive days (a = 2, b = 5) was fitted
\* and the fit returned the slope 2, the intercept 5 and no misfit
C13_Witness ==
  /\ call.op = "fit_straight_line_to_series"
  /\ inp.Series = <<5, 7, 9>>
  /\ inp.dates[2] - inp.dates[1] = 1
  /\ out.status = "ok"
  /\ out.est_slope.num = 2 * out.est_slope.den
  /\ out.est_intercept.num = 5 * out.est_intercept.den
  /\ out.misfit.radicands = <<0, 0, 0>>

-----------------------------------------------------------------------------
(* Claim on the order and the adjacency of the boxes *)

\* sample point k (1-based) of the n points from the start end point to the
\* end end point of the transect held in inp, numerators over n - 1
SamplePoint(k, n) ==
  << inp.x0 * (n - 1) + (k - 1) * (inp.x1 - inp.x0),
     inp.y0 * (n - 1) + (k - 1) * (inp.y1 - inp.y0) >>

\* sample point k moved by sign * width times the unit normal
\* (-(y1 - y0), x1 - x0) / NormLen, numerators over (n - 1) * NormLen
OffsetPoint(k, n, sign) ==
  << SamplePoint(k, n)[1] * inp.NormLen
       + sign * inp.width * (n - 1) * (-(inp.y1 - inp.y0)),
     SamplePoint(k, n)[2] * inp.NormLen
       + sign * inp.width * (n - 1) * (inp.x1 - inp.x0) >>

\* corner c of box b as returned
Corner(b, c) == <<out.BOXESX[b][c], out.BOXESY[b][c]>>

\* C14: with n >= 2 sample points, box i (0 <= i <= n-2) is built from the
\* sample points i and i+1: its corners are the sample point i and the
\* sample point i+1, each moved by -width and by +width times the same unit
\* normal; sample point 0 is the start end point of the transect and sample
\* point n-1 its end end point, so the boxes run in order from start to
\* end, and the far edge of box i is the near edge of box i+1.
C14_BoxesChainAlongTransect ==
  (call.op = "segment_line_to_boxes" /\ out.status = "ok" /\ out.nopoints >= 2) =>
    LET n == out.nopoints IN
    /\ Len(out.lons) = n /\ Len(out.lats) = n
    /\ Len(out.BOXESX) = n - 1 /\ Len(out.BOXESY) = n - 1
    /\ \A k \in 1..n : <<out.lons[k], out.lats[k]>> = SamplePoint(k, n)
    /\ <<out.lons[1], out.lats[1]>> = <<inp.x0 * out.LinDen, inp.y0 * out.LinDen>>
    /\ <<out.lons[n], out.lats[n]>> = <<inp.x1 * out.LinDen, inp.y1 * out.LinDen>>
    /\ out.LinDen = n - 1 /\ out.Den = (n - 1) * inp.NormLen
    /\ \A b \in 1..(n - 1) :
         /\ Corner(b, 1) = OffsetPoint(b, n, -1)
         /\ Corner(b, 2) = OffsetPoint(b + 1, n, -1)
         /\ Corner(b, 3) = OffsetPoint(b + 1, n, 1)
         /\ Corner(b, 4) = OffsetPoint(b, n, 1)
    /\ \A b \in 1..(n - 2) :
         /\ Corner(b, 2) = Corner(b + 1, 1)
         /\ Corner(b, 3) = Corner(b + 1, 4)

\* four sample points gave three boxes between different end points, and
\* the far edge of the first box, which is not its near edge, is the near
\* edge of the second
C14_Witness ==
  /\ call.op = "segment_line_to_boxes" /\ out.status = "ok"
  /\ out.nopoints = 4 /\ Len(out.BOXESX) = 3
  /\ <<inp.x0, inp.y0>> # <<inp.x1, inp.y1>>
  /\ Corner(1, 2) # Corner(1, 1)
  /\ Corner(1, 2) = Corner(2, 1) /\ Corner(1, 3) = Corner(2, 4)

-----------------------------------------------------------------------------
(* Claim on the initial guess of the sinusoidal fit *)

\* the smallest 0-based index k with values[k+1] - values[k] <= 0 of the
\* series held in inp
FirstNonIncrease ==
  CHOOSE k \in 0..(Len(inp.Series) - 2) :
    /\ inp.Series[k + 2] - inp.Series[k + 1] <= 0
    /\ \A j \in 0..(k - 1) : inp.Series[j + 2] - inp.Series[j + 1] > 0

\* C15: the initial phase guess of the sinusoidal fit equals period0/4
\* (period0 = 365) minus (t[k] - t[0]), k the smallest index such that
\* values[k+1] - values[k] <= 0, so that the time offset is measured to the
\* point just before the first non-increase; the other initial guesses are
\* mean0 = average(values), period0 = 365 and amp0 = (max - min)/2.
C15_InitialGuess ==
  (call.op = "fit_sinusoid_to_series" /\ out.status = "ok") =>
    LET s == inp.Series
        t == inp.dates
        k == FirstNonIncrease
        g == out.guess
    IN  /\ \E j \in 0..(Len(s) - 2) : s[j + 2] - s[j + 1] <= 0
        /\ g.period = 365
        /\ g.phase.den > 0
        /\ 4 * g.phase.num = g.phase.den * (365 - 4 * (t[k + 1] - t[1]))
        /\ g.mean.den = Len(s)
        /\ g.mean.num = NpSum(s)
        /\ g.amp.den > 0
        /\ 2 * g.amp.num = g.amp.den * (NpMax(s) - NpMin(s))

\* a series that rises to its second point and falls to its third was
\* fitted; the offset of the phase guess is the step to the second date
C15_Witness ==
  /\ call.op = "fit_sinusoid_to_series" /\ out.status = "ok"
  /\ Len(inp.Series) = 3
  /\ inp.Series[1] < inp.Series[2] /\ inp.Series[2] > inp.Series[3]
  /\ inp.dates[2] - inp.dates[1] = 2
  /\ out.guess.phase = [num |-> 365 - 8, den |-> 4]
  /\ out.guess.amp.num > 0

=============================================================================
